---- MODULE Spec2Model ----
(***************************************************************************)
(* Model of the DebtClear backend: the payoff simulator and the strategy   *)
(* ranker of backend/optimizer.py, the scenario functions of the same      *)
(* file, and the two POST handlers of backend/main.py.                     *)
(*                                                                         *)
(* Numbers.  balance, minPayment, budgets and extra payments are whole     *)
(* currency units and apr is a whole percentage, so every payment and      *)
(* every balance of a run is an integer.  A month's interest is            *)
(* balance * apr / 100 / 12: interest is carried exactly as a numerator    *)
(* over InterestDen (1200).  round(x, 2) is modelled by Round2, which      *)
(* yields hundredths of a unit; every emitted amount is in hundredths.     *)
(* List indices are 0-based as in the source: At(s, i) is s[i].            *)
(***************************************************************************)
EXTENDS Integers, Sequences, FiniteSets, TLC

VARIABLES
    pc,          \* position of the running call / request
    heap,        \* the debt dicts: heap[r] is the dict behind reference r
    debts,       \* the caller's debt list: a sequence of references
    mode,        \* which entry point is exercised
    budget,      \* monthly budget of the call
    budget2,     \* second budget (two-budget comparison only)
    extra,       \* extraPayment of the request
    order,       \* priority order handed to _calculate_payoff
    frame,       \* locals of the running _calculate_payoff
    result,      \* value returned by the entry point
    result2,     \* value returned by the second run (two-budget comparison)
    original,    \* calculate_with_extra_payment: the original plan
    debts_copy,  \* calculate_with_extra_payment: the copied list (references)
    reached      \* whether DebtOptimizer.optimize was entered by the request

vars == <<pc, heap, debts, mode, budget, budget2, extra, order, frame, result,
          result2, original, debts_copy, reached>>

(* ------------------------------ bounds -------------------------------- *)
MaxDebts == 2

Balances == {50, 150}
Aprs == {12, 24}
MinPayments == {0, 60}
Budgets == {0, 60, 100}
ExtraPayments == {0, 40, 200}
Names == <<"CardA", "CardB", "CardC", "CardD">>

(* ------------------------- program constants -------------------------- *)
MaxMonths == 360
InterestDen == 1200
ScoreK == 5000
BalanceFloor == 100
TimelineMonths == 12
ScheduleMonths == 24
BudgetStep == 100

\* Python's None, and "no value yet"
PyNone == [kind |-> "None"]
NoValue == [kind |-> "unset"]

(* ------------------------------ helpers ------------------------------- *)
Max(a, b) == IF a >= b THEN a ELSE b
Min(a, b) == IF a <= b THEN a ELSE b
At(s, i) == s[i + 1]
Range0(n) == 0 .. (n - 1)

RECURSIVE SumTo(_, _)
SumTo(f, n) == IF n = 0 THEN 0 ELSE f[n] + SumTo(f, n - 1)
\* sum(...) over a sequence
SumSeq(s) == SumTo(s, Len(s))

RECURSIVE ProdTo(_, _)
ProdTo(f, n) == IF n = 0 THEN 1 ELSE f[n] * ProdTo(f, n - 1)

\* round(num / den, 2) for num >= 0, in hundredths; ties go to the even digit
Round2(num, den) ==
    LET q == (num * 100) \div den
        r == (num * 100) % den
    IN  IF 2 * r > den \/ (2 * r = den /\ q % 2 = 1) THEN q + 1 ELSE q

\* the debt dicts a list of references denotes
Deref(h, refs) == [i \in 1 .. Len(refs) |-> h[refs[i]]]

(* -------------------------- strategy ranker --------------------------- *)
\* sorted(range(n), key=...): a stable sort.  Index i (inserted in ascending
\* index order) goes before the first element it strictly precedes, so
\* equal keys keep their original order, also under reverse=True.
Precedes(keys, reverse, i, j) ==
    IF reverse THEN At(keys, i) > At(keys, j) ELSE At(keys, i) < At(keys, j)

RECURSIVE InsertSorted(_, _, _, _)
InsertSorted(s, keys, reverse, i) ==
    IF s = <<>> THEN <<i>>
    ELSE IF Precedes(keys, reverse, i, Head(s)) THEN <<i>> \o s
    ELSE <<Head(s)>> \o InsertSorted(Tail(s), keys, reverse, i)

RECURSIVE SortPrefix(_, _, _)
SortPrefix(keys, reverse, k) ==
    IF k = 0 THEN <<>>
    ELSE InsertSorted(SortPrefix(keys, reverse, k - 1), keys, reverse, k - 1)

\* a sort that reverses the ascending result: equal keys come out in
\* descending index order
ReversingSort(keys, reverse) ==
    LET asc == SortPrefix(keys, FALSE, Len(keys))
    IN  IF reverse THEN [p \in 1 .. Len(asc) |-> asc[Len(asc) + 1 - p]] ELSE asc

SortedIndices(keys, reverse) == SortPrefix(keys, reverse, Len(keys))

\* _avalanche_method: sort by apr, highest first
AvalancheOrder(ds) ==
    SortedIndices([i \in 1 .. Len(ds) |-> ds[i].apr], TRUE)

\* _snowball_method: sort by balance, smallest first
SnowballOrder(ds) ==
    SortedIndices([i \in 1 .. Len(ds) |-> ds[i].balance], FALSE)

\* _hybrid_method scores: apr*0.5 + (5000/max(balance,100))*0.3 + minPayment*0.2.
\* Each score is multiplied by 10 * (product of all max(balance,100)), which
\* makes it an integer and keeps the comparison of any two scores.
HybridScores(ds) ==
    LET n == Len(ds)
        m == [i \in 1 .. n |-> Max(ds[i].balance, BalanceFloor)]
        p == ProdTo(m, n)
    IN  [i \in 1 .. n |->
            (5 * ds[i].apr + 2 * ds[i].minPayment) * p + 3 * ScoreK * (p \div m[i])]

HybridOrder(ds) == SortedIndices(HybridScores(ds), TRUE)

(* -------------------------- payoff simulator -------------------------- *)
\* locals of _calculate_payoff before the first loop test
InitFrame(ds) ==
    [balances |-> [i \in 1 .. Len(ds) |-> ds[i].balance],
     months |-> 0,
     total_interest |-> 0,
     broke |-> FALSE,
     min_payments_total |-> 0,
     extra_payment |-> 0,
     month_payments |-> <<>>,
     month_total_paid |-> 0,
     month_interest |-> 0,
     schedule_len |-> 0,
     schedule_last |-> [month |-> 0, payments |-> <<>>, total_paid |-> 0],
     timeline_len |-> 0]

\* while any(balance > 0 for balance in balances)
LoopTest(f) == \E i \in 1 .. Len(f.balances) : f.balances[i] > 0

\* if months > 360: break
CapReached(months) == months > MaxMonths

\* sum of minPayment over the debts with balance > 0
MinPaymentsTotal(ds, balances) ==
    SumSeq([i \in 1 .. Len(ds) |-> IF balances[i] > 0 THEN ds[i].minPayment ELSE 0])

\* the whole budget taken as extra, on top of the minimums
ExtraWholeBudget(b, min_payments_total) == Max(0, b)

\* the difference taken the wrong way round
ExtraSignSlip(b, min_payments_total) == Max(0, min_payments_total - b)

\* extra_payment = max(0, budget - min_payments_total)
ExtraAvailable(b, min_payments_total) == Max(0, b - min_payments_total)

\* payment = min(debts[i]['minPayment'], balances[i]) for a debt with balance > 0
MinimumPayment(d, balance) == Min(d.minPayment, balance)

\* balances after the "pay minimums on everything first" loop
AfterMinimums(ds, balances) ==
    [i \in 1 .. Len(ds) |->
        IF balances[i] > 0
        THEN Max(0, balances[i] - MinimumPayment(ds[i], balances[i]))
        ELSE balances[i]]

\* the payment records appended by the minimum-payment loop, in index order
RECURSIVE MinimumRecords(_, _, _)
MinimumRecords(ds, balances, k) ==
    IF k = 0 THEN <<>>
    ELSE LET rest == MinimumRecords(ds, balances, k - 1)
             payment == MinimumPayment(ds[k], balances[k])
             left == balances[k] - payment
         IN  IF balances[k] > 0
             THEN Append(rest,
                    [debt_index |-> k - 1,
                     debt_name |-> ds[k].name,
                     payment_amount |-> Round2(payment, 1),
                     remaining_balance |-> Round2(Max(0, left), 1),
                     paid_off |-> (100 * left <= 1)])
             ELSE rest

\* the positions of order, in sequence, that pass
\* "balances[priority_index] > 0 and extra_payment > 0"
ExtraCandidates(ord, balances, extra_payment) ==
    {p \in 1 .. Len(ord) : At(balances, ord[p]) > 0 /\ extra_payment > 0}

\* an allocation that does not stop at the first debt: what is left of the
\* extra is carried on to the next debts in order
RECURSIVE SpillFrom(_, _, _, _, _, _)
SpillFrom(ord, balances, records, extra_payment, paid, p) ==
    IF p > Len(ord)
    THEN [balances |-> balances, records |-> records,
          extra_payment |-> extra_payment, paid |-> paid]
    ELSE IF At(balances, ord[p]) > 0 /\ extra_payment > 0
    THEN LET priority_index == ord[p]
             payment == Min(extra_payment, At(balances, priority_index))
             left == At(balances, priority_index) - payment
         IN  SpillFrom(ord,
                [balances EXCEPT ![priority_index + 1] = left],
                [k \in 1 .. Len(records) |->
                    IF records[k].debt_index = priority_index
                    THEN [records[k] EXCEPT
                            !.payment_amount = @ + Round2(payment, 1),
                            !.remaining_balance = Round2(Max(0, left), 1),
                            !.paid_off = (100 * left <= 1)]
                    ELSE records[k]],
                extra_payment - payment, paid + payment, p + 1)
    ELSE SpillFrom(ord, balances, records, extra_payment, paid, p + 1)

ApplyExtraSpilling(ord, balances, records, extra_payment) ==
    SpillFrom(ord, balances, records, extra_payment, 0, 1)

\* for priority_index in order: ... break  -- the allocation of the extra
\* payment; returns the balances, the records, the extra left and the paid sum
ApplyExtra(ord, balances, records, extra_payment) ==
    LET cand == ExtraCandidates(ord, balances, extra_payment)
    IN  IF cand = {}
        THEN [balances |-> balances, records |-> records,
              extra_payment |-> extra_payment, paid |-> 0]
        ELSE LET p == CHOOSE q \in cand : \A r \in cand : q <= r
                 priority_index == ord[p]
                 payment == Min(extra_payment, At(balances, priority_index))
                 left == At(balances, priority_index) - payment
             IN  [balances |-> [balances EXCEPT ![priority_index + 1] = left],
                  records |->
                    [k \in 1 .. Len(records) |->
                        IF records[k].debt_index = priority_index
                        THEN [records[k] EXCEPT
                                !.payment_amount = @ + Round2(payment, 1),
                                !.remaining_balance = Round2(Max(0, left), 1),
                                !.paid_off = (100 * left <= 1)]
                        ELSE records[k]],
                  extra_payment |-> extra_payment - payment,
                  paid |-> payment]

\* month_interest, as a numerator over InterestDen
MonthInterest(ds, balances) ==
    SumSeq([i \in 1 .. Len(ds) |->
              IF balances[i] > 0 THEN balances[i] * ds[i].apr ELSE 0])

\* one iteration of the while loop, entered with LoopTest true
PayoffMonth(ds, ord, b, f) ==
    LET months == f.months + 1
    IN  IF CapReached(months)
        THEN [f EXCEPT !.months = months, !.broke = TRUE]
        ELSE
        LET min_payments_total == MinPaymentsTotal(ds, f.balances)
            extra_payment == ExtraAvailable(b, min_payments_total)
            records == MinimumRecords(ds, f.balances, Len(ds))
            paid_min == SumSeq([i \in 1 .. Len(ds) |->
                            IF f.balances[i] > 0
                            THEN MinimumPayment(ds[i], f.balances[i]) ELSE 0])
            after_min == AfterMinimums(ds, f.balances)
            x == ApplyExtra(ord, after_min, records, extra_payment)
            month_total_paid == paid_min + x.paid
            month_interest == MonthInterest(ds, x.balances)
        IN  [balances |-> x.balances,
             months |-> months,
             total_interest |-> f.total_interest + month_interest,
             broke |-> FALSE,
             min_payments_total |-> min_payments_total,
             extra_payment |-> x.extra_payment,
             month_payments |-> x.records,
             month_total_paid |-> month_total_paid,
             month_interest |-> month_interest,
             schedule_len |-> f.schedule_len + 1,
             schedule_last |->
                [month |-> months, payments |-> x.records,
                 total_paid |-> Round2(month_total_paid, 1)],
             timeline_len |->
                IF months <= TimelineMonths THEN f.timeline_len + 1
                ELSE f.timeline_len]

\* the dict _calculate_payoff returns
PayoffResult(ord, f) ==
    [months_to_freedom |-> f.months,
     total_interest |-> Round2(f.total_interest, InterestDen),
     priority_order |-> ord,
     timeline_len |-> f.timeline_len,
     payment_schedule_len |-> Min(f.schedule_len, ScheduleMonths)]

\* the while loop has ended: its test is false, or it was left by break
LoopEnded(f) == f.broke \/ ~LoopTest(f)

\* at most k further passes through the loop body.  The passes are split in
\* two halves, and the frame after the first half is bound to a value before
\* the second half starts from it.
RECURSIVE RunFor(_, _, _, _, _)
RunFor(ds, ord, b, f, k) ==
    IF k = 0 \/ LoopEnded(f) THEN f
    ELSE IF k = 1 THEN PayoffMonth(ds, ord, b, f)
    ELSE LET half == {RunFor(ds, ord, b, f, k \div 2)}
         IN  [g \in half |-> RunFor(ds, ord, b, g, k - (k \div 2))]
                [CHOOSE g \in half : TRUE]

\* _calculate_payoff run to its return: the break is taken in pass
\* MaxMonths + 1 at the latest
RunLoop(ds, ord, b, f) == RunFor(ds, ord, b, f, MaxMonths + 1)

CalculatePayoff(ds, ord, b) == PayoffResult(ord, RunLoop(ds, ord, b, InitFrame(ds)))

(* ------------------------- optimizer methods -------------------------- *)
AvalancheMethod(ds, b) == CalculatePayoff(ds, AvalancheOrder(ds), b)
SnowballMethod(ds, b) == CalculatePayoff(ds, SnowballOrder(ds), b)
HybridMethod(ds, b) == CalculatePayoff(ds, HybridOrder(ds), b)

\* DebtOptimizer.optimize
Optimize(ds, b) ==
    [strategies |-> [avalanche |-> AvalancheMethod(ds, b),
                     snowball |-> SnowballMethod(ds, b),
                     hybrid |-> HybridMethod(ds, b)],
     recommended |-> "hybrid"]

StrategyOrder(strategy, ds) ==
    CASE strategy = "avalanche" -> AvalancheOrder(ds)
      [] strategy = "snowball" -> SnowballOrder(ds)
      [] strategy = "hybrid" -> HybridOrder(ds)

(* ------------------------- scenario functions ------------------------- *)
\* the list the loop of calculate_budget_scenarios accumulates
ScenarioList(ds, base_budget) ==
    LET budgets == <<base_budget, base_budget + BudgetStep, base_budget + 2 * BudgetStep>>
    IN  [k \in 1 .. 3 |->
            LET r == Optimize(ds, budgets[k])
            IN  [budget |-> budgets[k],
                 months |-> r.strategies.hybrid.months_to_freedom,
                 interest |-> r.strategies.hybrid.total_interest]]

\* calculate_budget_scenarios: the function body ends with the loop, so the
\* call evaluates to None ("return scenarios" sits after the return of the
\* next function)
CalculateBudgetScenarios(ds, base_budget) ==
    LET scenarios == [kind |-> "list", items |-> ScenarioList(ds, base_budget)]
    IN  PyNone

\* a copy of the list only: the dicts stay shared with the caller
CopyDebtsShallow(h, refs) == [heap |-> h, refs |-> refs]

\* debts_copy = [debt.copy() for debt in debts]: new dicts, new list
CopyDebts(h, refs) ==
    [heap |-> h \o [i \in 1 .. Len(refs) |-> h[refs[i]]],
     refs |-> [i \in 1 .. Len(refs) |-> Len(h) + i]]

\* the two operands exchanged
SavingsSwapped(o, a) ==
    [months_saved |-> a.months_to_freedom - o.months_to_freedom,
     interest_saved |-> a.total_interest - o.total_interest]

\* the 'savings' entry of calculate_with_extra_payment
Savings(o, a) ==
    [months_saved |-> o.months_to_freedom - a.months_to_freedom,
     interest_saved |-> o.total_interest - a.total_interest]

\* the balance reduction applied to the head of the hybrid order: the dict
\* behind the copied list's reference is rebound
ReduceHead(h, copy_refs, hybrid_order, extra_payment) ==
    IF hybrid_order # <<>> /\ extra_payment > 0
    THEN [h EXCEPT ![At(copy_refs, hybrid_order[1])].balance =
                        Max(0, @ - extra_payment)]
    ELSE h

\* the dict calculate_with_extra_payment returns
ExtraPaymentResult(o, a) ==
    [original |-> [months |-> o.months_to_freedom, interest |-> o.total_interest],
     accelerated |-> [months |-> a.months_to_freedom, interest |-> a.total_interest],
     savings |-> Savings(o, a)]

(* ------------------------------- inputs ------------------------------- *)
Strategies == {"avalanche", "snowball", "hybrid"}

\* the debt lists of at most MaxDebts debts with balances drawn from bs and
\* minimum payments from ms
DebtLists(bs, ms) ==
    UNION {
        {[i \in 1 .. n |->
            [name |-> Names[i], balance |-> t[i].balance, apr |-> t[i].apr,
             minPayment |-> t[i].minPayment]] :
         t \in [1 .. n -> [balance : bs, apr : Aprs, minPayment : ms]]} :
        n \in 0 .. MaxDebts}

\* balances a request may carry: the data model's, zero, and an invalid one
RequestBalances == Balances \cup {0, -50}
RequestMinPayments == {60}
RequestBudgets == {60, 100}
BudgetPairs == {<<0, 60>>, <<60, 60>>, <<60, 100>>, <<100, 160>>}

Refs(h) == [i \in 1 .. Len(h) |-> i]

(* --------------------- one strategy, month by month ------------------- *)
InitSim ==
    /\ heap \in DebtLists(Balances, MinPayments)
    /\ debts = Refs(heap)
    /\ mode \in Strategies
    /\ budget \in Budgets
    /\ budget2 = budget
    /\ extra = 0
    /\ pc = "start"
    /\ order = <<>>
    /\ frame = InitFrame(<<>>)
    /\ result = NoValue
    /\ result2 = NoValue
    /\ original = NoValue
    /\ debts_copy = <<>>
    /\ reached = FALSE

\* a strategy method up to its call of _calculate_payoff, and that call up
\* to the first loop test
EnterPayoff(strategy) ==
    /\ pc = "start"
    /\ mode = strategy
    /\ order' = StrategyOrder(strategy, Deref(heap, debts))
    /\ frame' = InitFrame(Deref(heap, debts))
    /\ pc' = "loop"
    /\ UNCHANGED <<heap, debts, mode, budget, budget2, extra, result, result2, original,
                   debts_copy, reached>>

AvalancheCall == EnterPayoff("avalanche")
SnowballCall == EnterPayoff("snowball")
HybridCall == EnterPayoff("hybrid")

\* one pass through the body of the while loop
PayoffStep ==
    /\ pc = "loop"
    /\ ~LoopEnded(frame)
    /\ frame' = PayoffMonth(Deref(heap, debts), order, budget, frame)
    /\ UNCHANGED <<pc, heap, debts, mode, budget, budget2, extra, order, result,
                   result2, original, debts_copy, reached>>

\* the loop is left (test false, or break) and the result dict is returned
PayoffReturn ==
    /\ pc = "loop"
    /\ LoopEnded(frame)
    /\ result' = PayoffResult(order, frame)
    /\ pc' = "returned"
    /\ UNCHANGED <<heap, debts, mode, budget, budget2, extra, order, frame,
                   result2, original, debts_copy, reached>>

NextSim ==
    \/ AvalancheCall
    \/ SnowballCall
    \/ HybridCall
    \/ PayoffStep
    \/ PayoffReturn

Spec == InitSim /\ [][NextSim]_vars

(* ------------------- one strategy under two budgets ------------------- *)
InitTwoBudgets ==
    /\ heap \in DebtLists(Balances, MinPayments)
    /\ debts = Refs(heap)
    /\ mode \in Strategies
    /\ \E bp \in BudgetPairs : budget = bp[1] /\ budget2 = bp[2]
    /\ extra = 0
    /\ pc = "first"
    /\ order = <<>>
    /\ frame = InitFrame(<<>>)
    /\ result = NoValue
    /\ result2 = NoValue
    /\ original = NoValue
    /\ debts_copy = <<>>
    /\ reached = FALSE

\* the strategy method called with the lower budget
RunLower ==
    /\ pc = "first"
    /\ order' = StrategyOrder(mode, Deref(heap, debts))
    /\ result' = CalculatePayoff(Deref(heap, debts), order', budget)
    /\ pc' = "second"
    /\ UNCHANGED <<heap, debts, mode, budget, budget2, extra, frame, result2,
                   original, debts_copy, reached>>

\* the same method called again with the higher budget
RunHigher ==
    /\ pc = "second"
    /\ result2' = CalculatePayoff(Deref(heap, debts), order, budget2)
    /\ pc' = "compared"
    /\ UNCHANGED <<heap, debts, mode, budget, budget2, extra, order, frame, result,
                   original, debts_copy, reached>>

NextTwoBudgets == RunLower \/ RunHigher

SpecTwoBudgets == InitTwoBudgets /\ [][NextTwoBudgets]_vars

(* ----------------------------- the handlers --------------------------- *)
InitApi ==
    /\ heap \in DebtLists(RequestBalances, RequestMinPayments)
    /\ debts = Refs(heap)
    /\ mode \in {"/optimize", "/calculate-bonus-impact"}
    /\ budget \in RequestBudgets
    /\ budget2 = budget
    /\ extra \in IF mode = "/optimize" THEN {0} ELSE ExtraPayments
    /\ pc = "request"
    /\ order = <<>>
    /\ frame = InitFrame(<<>>)
    /\ result = NoValue
    /\ result2 = NoValue
    /\ original = NoValue
    /\ debts_copy = <<>>
    /\ reached = FALSE

\* _extract_features divides minPayment by balance: ZeroDivisionError on a
\* zero balance.  It takes log(balance + 1): nan or -inf below -1, which the
\* regressor's fit may or may not reject.  An empty feature array is rejected.
ExplainOutcomes(ds) ==
    IF ds = <<>> \/ \E i \in 1 .. Len(ds) : ds[i].balance = 0
    THEN {"raises"}
    ELSE IF \E i \in 1 .. Len(ds) : ds[i].balance <= -1
    THEN {"returns", "raises"}
    ELSE {"returns"}

\* POST /optimize
OptimizeDebts ==
    /\ pc = "request"
    /\ mode = "/optimize"
    /\ LET c == CopyDebts(heap, debts)
           debts_list == Deref(c.heap, c.refs)
           optimization_result == Optimize(debts_list, budget)
       IN  /\ heap' = c.heap
           /\ reached' = TRUE
           /\ \E outcome \in ExplainOutcomes(debts_list) :
                result' =
                  IF outcome = "raises"
                  THEN [success |-> FALSE, error |-> "explain_recommendation"]
                  ELSE [success |-> TRUE,
                        strategies |-> optimization_result.strategies,
                        recommended |-> optimization_result.recommended,
                        budget_scenarios |->
                            CalculateBudgetScenarios(debts_list, budget)]
    /\ pc' = "responded"
    /\ UNCHANGED <<debts, mode, budget, budget2, extra, order, frame, result2,
                   original, debts_copy>>

\* POST /calculate-bonus-impact, up to the original plan of
\* calculate_with_extra_payment (the handler passes the request's own list)
BonusOriginal ==
    /\ pc = "request"
    /\ mode = "/calculate-bonus-impact"
    /\ reached' = TRUE
    /\ original' = Optimize(Deref(heap, debts), budget)
    /\ pc' = "copy"
    /\ UNCHANGED <<heap, debts, mode, budget, budget2, extra, order, frame, result,
                   result2, debts_copy>>

\* the debts are copied and the extra payment is taken off the copy's
\* first-priority debt
BonusCopy ==
    /\ pc = "copy"
    /\ LET c == CopyDebts(heap, debts)
       IN  /\ debts_copy' = c.refs
           /\ heap' = ReduceHead(c.heap, c.refs,
                                 original.strategies.hybrid.priority_order, extra)
    /\ pc' = "accelerate"
    /\ UNCHANGED <<debts, mode, budget, budget2, extra, order, frame, result,
                   result2, original, reached>>

\* the accelerated plan, the returned dict and the handler's response
BonusAccelerated ==
    /\ pc = "accelerate"
    /\ result' =
          [success |-> TRUE,
           result |-> ExtraPaymentResult(original.strategies.hybrid,
                          Optimize(Deref(heap, debts_copy), budget).strategies.hybrid)]
    /\ pc' = "responded"
    /\ UNCHANGED <<heap, debts, mode, budget, budget2, extra, order, frame,
                   result2, original, debts_copy, reached>>

NextApi == OptimizeDebts \/ BonusOriginal \/ BonusCopy \/ BonusAccelerated

SpecApi == InitApi /\ [][NextApi]_vars

(* ------------------------------ properties ---------------------------- *)
TheDebts == Deref(heap, debts)
NumDebts == Len(debts)

\* a pass through the loop body that simulated a month (not the break)
MonthSimulated == frame'.months = frame.months + 1 /\ ~frame'.broke

\* the sum of the payment_amount fields of a month's records
RecordedTotal(payments) ==
    SumSeq([k \in 1 .. Len(payments) |-> payments[k].payment_amount])

\* clamped minimum of debt i at the start of the month (0 when it owes nothing)
ClampedMin(i) ==
    IF frame.balances[i] > 0
    THEN Min(TheDebts[i].minPayment, frame.balances[i]) ELSE 0

\* sum of the unclamped minimums of the debts owing at the start of the month
OwingMinimums ==
    SumSeq([i \in 1 .. NumDebts |->
              IF frame.balances[i] > 0 THEN TheDebts[i].minPayment ELSE 0])

\* what debt i received in the month beyond its clamped minimum
Beyond(i) ==
    IF frame.balances[i] > 0
    THEN (frame.balances[i] - ClampedMin(i)) - frame'.balances[i] ELSE 0

\* C1: every run returns months_to_freedom <= 360, a run that hits the cap
\* included.
C1_MonthsWithinCap ==
    pc = "returned" => result.months_to_freedom <= MaxMonths

\* C2 (as stated): a month's total_paid never exceeds the monthly budget.
C2_TotalWithinBudget ==
    frame.schedule_len > 0 => frame.schedule_last.total_paid <= 100 * budget

\* C2 (amended): in every simulated month the recorded per-debt payments sum
\* to total_paid, which is the clamped minimums plus the extra applied; the
\* extra applied is at most max(0, budget - minimums of the debts owing), and
\* total_paid is at most the larger of the budget and those minimums.
C2_TotalPaid ==
    [][MonthSimulated =>
        LET e == frame'.schedule_last
            mins == SumSeq([i \in 1 .. NumDebts |-> ClampedMin(i)])
            applied == SumSeq([i \in 1 .. NumDebts |-> Beyond(i)])
        IN  /\ e.month = frame'.months
            /\ RecordedTotal(e.payments) = e.total_paid
            /\ e.total_paid = 100 * (mins + applied)
            /\ applied >= 0
            /\ applied <= Max(0, budget - OwingMinimums)
            /\ e.total_paid <= 100 * Max(budget, OwingMinimums)]_vars

\* a month was paid with a budget below the minimums of the debts owing
C2_Witness ==
    /\ frame.schedule_len > 0
    /\ budget < frame.min_payments_total
    /\ frame.schedule_last.total_paid > 100 * budget
    /\ Len(frame.schedule_last.payments) >= 2

\* C3: with the debts and the priority order fixed, the higher budget never
\* returns more months nor more interest than the lower one.
C3_BudgetMonotone ==
    pc = "compared" =>
        /\ budget <= budget2
        /\ result2.priority_order = result.priority_order
        /\ result2.months_to_freedom <= result.months_to_freedom
        /\ result2.total_interest <= result.total_interest

\* both figures strictly lower under the higher budget, for two debts
C3_Witness ==
    /\ pc = "compared"
    /\ NumDebts >= 2
    /\ budget < budget2
    /\ result2.months_to_freedom < result.months_to_freedom
    /\ result2.total_interest < result.total_interest

\* C4: the budget_scenarios field of a successful /optimize response is the
\* list of three entries for budget, budget + 100 and budget + 200.
C4_ScenariosReturned ==
    (pc = "responded" /\ mode = "/optimize" /\ result.success) =>
        /\ result.budget_scenarios.kind = "list"
        /\ result.budget_scenarios =
              [kind |-> "list", items |-> ScenarioList(TheDebts, budget)]

\* C5: no step changes a dict of the caller's debt list, nor the list.
C5_CallerDebtsUnchanged ==
    [][Deref(heap', debts') = Deref(heap, debts)]_vars

\* an extra payment lowered the balance of a copy, not of the caller's dict
C5_Witness ==
    /\ pc = "responded"
    /\ mode = "/calculate-bonus-impact"
    /\ extra > 0
    /\ \E i \in 1 .. NumDebts :
          heap[debts_copy[i]].balance < heap[debts[i]].balance

IsPermutation(ord, n) ==
    /\ Len(ord) = n
    /\ \A i \in Range0(n) : \E p \in 1 .. n : ord[p] = i

\* C6: the avalanche order is a permutation of 0..n-1, non-increasing in apr;
\* the snowball order is one non-decreasing in balance; equal keys appear in
\* ascending index order.
C6_Orderings ==
    pc \in {"loop", "returned"} =>
        /\ IsPermutation(order, NumDebts)
        /\ mode = "avalanche" =>
              \A p, q \in 1 .. NumDebts : p < q =>
                  \/ At(TheDebts, order[p]).apr > At(TheDebts, order[q]).apr
                  \/ /\ At(TheDebts, order[p]).apr = At(TheDebts, order[q]).apr
                     /\ order[p] < order[q]
        /\ mode = "snowball" =>
              \A p, q \in 1 .. NumDebts : p < q =>
                  \/ At(TheDebts, order[p]).balance < At(TheDebts, order[q]).balance
                  \/ /\ At(TheDebts, order[p]).balance = At(TheDebts, order[q]).balance
                     /\ order[p] < order[q]

\* an avalanche order over two debts of equal apr, the second the smaller
C6_Witness ==
    /\ pc = "loop"
    /\ mode = "avalanche"
    /\ NumDebts = 2
    /\ TheDebts[1].apr = TheDebts[2].apr
    /\ TheDebts[1].balance > TheDebts[2].balance
    /\ order = <<0, 1>>

\* C7: a single debt with apr > 0, minPayment > 0, balance > minPayment and
\* budget = minPayment returns total_interest > 0 and more months than
\* ceil(balance / minPayment).
C7_InterestLengthensPayoff ==
    (/\ pc = "returned"
     /\ NumDebts = 1
     /\ TheDebts[1].apr > 0
     /\ TheDebts[1].minPayment > 0
     /\ TheDebts[1].balance > TheDebts[1].minPayment
     /\ budget = TheDebts[1].minPayment) =>
        /\ result.total_interest > 0
        /\ result.months_to_freedom >
              (TheDebts[1].balance + TheDebts[1].minPayment - 1)
                  \div TheDebts[1].minPayment

NegativeBalance == \E i \in 1 .. NumDebts : TheDebts[i].balance < 0

\* C8: a request with a negative balance never reaches DebtOptimizer.optimize
\* and is answered with success: false.
C8_NegativeBalanceRejected ==
    NegativeBalance =>
        /\ ~reached
        /\ pc = "responded" => ~result.success

\* C9: in a simulated month only the first debt in the priority order that
\* still owes after the minimums receives more than its clamped minimum, it
\* receives min(extra, what it owes), nothing of the extra goes elsewhere, and
\* no balance ends below zero.
C9_NoSpillover ==
    [][MonthSimulated =>
        LET n == NumDebts
            owes == [i \in 1 .. n |-> frame.balances[i] - ClampedMin(i)]
            avail == Max(0, budget - OwingMinimums)
            first == {p \in 1 .. n :
                        /\ At(owes, order[p]) > 0
                        /\ \A q \in 1 .. (p - 1) : At(owes, order[q]) <= 0}
        IN  /\ \A i \in 1 .. n : frame'.balances[i] >= 0
            /\ Cardinality({i \in 1 .. n : Beyond(i) # 0}) <= 1
            /\ \A p \in 1 .. n :
                  Beyond(order[p] + 1) =
                      IF p \in first THEN Min(avail, At(owes, order[p])) ELSE 0
            /\ frame'.extra_payment =
                  avail - SumSeq([i \in 1 .. n |-> Beyond(i)])]_vars

\* extra was left over after the priority debt was cleared, while another
\* debt still owes
C9_Witness ==
    /\ frame.schedule_len > 0
    /\ frame.extra_payment > 0
    /\ \E i \in 1 .. NumDebts : frame.balances[i] > 0
    /\ \E k \in 1 .. Len(frame.month_payments) :
          /\ frame.month_payments[k].paid_off
          /\ frame.month_payments[k].debt_index = order[1]

\* C10: calculate_with_extra_payment returns months_saved >= 0 and
\* interest_saved >= 0, both 0 when extraPayment = 0, and the accelerated
\* run's hybrid order is the original one.
C10_SavingsNonNegative ==
    (pc = "responded" /\ mode = "/calculate-bonus-impact") =>
        LET v == result.result
            copies == Deref(heap, debts_copy)
        IN  /\ v.savings.months_saved >= 0
            /\ v.savings.interest_saved >= 0
            /\ v.savings.months_saved = v.original.months - v.accelerated.months
            /\ v.savings.interest_saved =
                  v.original.interest - v.accelerated.interest
            /\ extra = 0 =>
                  v.savings.months_saved = 0 /\ v.savings.interest_saved = 0
            /\ HybridOrder(copies) = HybridOrder(TheDebts)

\* an extra payment that saved both months and interest with two debts
C10_Witness ==
    /\ pc = "responded"
    /\ mode = "/calculate-bonus-impact"
    /\ NumDebts >= 2
    /\ extra > 0
    /\ result.result.savings.months_saved > 0
    /\ result.result.savings.interest_saved > 0

====
